---- MODULE Spec2Model ----
(***************************************************************************)
(* libhfsuser (lib/libhfsuser/hfsuser.c): the record cache, alone and      *)
(* under threads, the path resolver hfs_lookup and its name conversion,    *)
(* hfs_get_path, hfs_open and the device read callback hfs_read in both    *)
(* builds, and sort_combining_characters, as state machines.               *)
(*                                                                         *)
(* Text is a sequence of byte values (UTF-8) or of UTF-16 code units.  A   *)
(* path is the sequence of the elements that strsep(&splitptr, "/") cuts   *)
(* out of the text after the path's first character: "/" is << <<>> >>,    *)
(* "/a/" is <<"a", <<>> >>, "/a/rsrc" is <<"a", "rsrc">>.  Two paths are   *)
(* equal as C strings exactly when they are equal as such sequences.       *)
(***************************************************************************)
EXTENDS Integers, Sequences, FiniteSets, TLC

VARIABLES
    open,     \* the volumes this process has opened (hfslib_open_volume)
    cache,    \* the process-wide record cache: head, cachelock's ring of nodes
    last,     \* the call that returned last, with its arguments and results
    added,    \* history: the paths handed to ringbuffer_add, oldest first
    rd,       \* the hfs_read call in progress
    dev,      \* the struct hf_device of hfs_open and the device file it opened
    conv,     \* the path element hfs_lookup converted last, in either build
    thr,      \* threads calling the record cache at once, the heap and the lock
    sorted    \* the codepoint buffer sort_combining_characters was given last

vars == <<open, cache, last, added, rd, dev, conv, thr, sorted>>

------------------------------------------------------------------------------
(* Bounds of the model *)

\* the longest buffer sort_combining_characters is given, in codepoints
MaxSortLen == 6

\* threads that call the record cache at the same time
MaxThreads == 2

\* the longest path element converted on its own, in bytes
MaxElementLen == 2

\* the largest size a device reports, in units of 512 bytes
MaxSizeBlocks == 3

\* number of nodes ringbuffer_init links after the first one (1024 in the source)
RING_BUFFER_SIZE == 2

\* direct ringbuffer_add calls recorded in a behaviour of SpecRing
MaxAdds == 5

\* largest device block size and largest length/offset of an hfs_read call
MaxBlk == 3
MaxLength == 5
MaxOffset == 1

------------------------------------------------------------------------------
(* Text helpers *)

NoText == <<>>

RECURSIVE Concat(_)
Concat(ss) == IF ss = <<>> THEN <<>> ELSE Head(ss) \o Concat(Tail(ss))

Replace(s, from, to) == [i \in 1..Len(s) |-> IF s[i] = from THEN to ELSE s[i]]

Min(a, b) == IF a < b THEN a ELSE b

\* "rsrc"
RsrcName == <<114, 115, 114, 99>>

------------------------------------------------------------------------------
(* Unicode: UTF-8, UTF-16 and the HFS+ variant of NFD *)

Utf8Encode(cp) ==
    IF cp < 128 THEN <<cp>>
    ELSE IF cp < 2048 THEN <<192 + (cp \div 64), 128 + (cp % 64)>>
    ELSE IF cp < 65536
         THEN <<224 + (cp \div 4096), 128 + ((cp \div 64) % 64), 128 + (cp % 64)>>
         ELSE <<240 + (cp \div 262144), 128 + ((cp \div 4096) % 64),
                128 + ((cp \div 64) % 64), 128 + (cp % 64)>>

IsCont(s, i) == i <= Len(s) /\ s[i] >= 128 /\ s[i] < 192

\* utf8proc_iterate: the first codepoint of s and the bytes it takes; n < 0 when
\* the bytes are not UTF-8
utf8proc_iterate(s) ==
    LET b == s[1] IN
    IF b < 128 THEN [n |-> 1, cp |-> b]
    ELSE IF b >= 194 /\ b < 224 /\ IsCont(s, 2)
         THEN [n |-> 2, cp |-> (b - 192) * 64 + (s[2] - 128)]
    ELSE IF b >= 224 /\ b < 240 /\ IsCont(s, 2) /\ IsCont(s, 3)
         THEN [n |-> 3, cp |-> (b - 224) * 4096 + (s[2] - 128) * 64 + (s[3] - 128)]
    ELSE [n |-> -3, cp |-> -1]

\* the codepoints of s up to its end or its first invalid byte
RECURSIVE Codepoints(_)
Codepoints(s) ==
    IF s = <<>> THEN [ok |-> TRUE, cps |-> <<>>]
    ELSE LET r == utf8proc_iterate(s) IN
         IF r.n < 0 THEN [ok |-> FALSE, cps |-> <<>>]
         ELSE LET t == Codepoints(SubSeq(s, r.n + 1, Len(s))) IN
              [ok |-> t.ok, cps |-> <<r.cp>> \o t.cps]

HFSINRANGE(cp) ==
    /\ cp >= 0 /\ cp <= 65535
    /\ ~ \/ (cp >= 8192 /\ cp <= 12287)
         \/ (cp >= 63744 /\ cp <= 64255)

\* utf8proc_get_property(cp)->combining_class
combining_class(cp) ==
    CASE cp = 769 -> 230      \* U+0301 combining acute accent
      [] cp = 803 -> 220      \* U+0323 combining dot below
      [] cp = 807 -> 202      \* U+0327 combining cedilla
      [] cp = 8400 -> 230     \* U+20D0 combining left harpoon above
      [] OTHER -> 0

\* utf8proc_decompose_char(cp, ..., UTF8PROC_DECOMPOSE, ...)
utf8proc_decompose_char(cp) ==
    CASE cp = 233 -> <<101, 769>>     \* U+00E9 -> e, U+0301
      [] cp = 231 -> <<99, 807>>      \* U+00E7 -> c, U+0327
      [] OTHER -> <<cp>>

Swap(buf, i, j) == [buf EXCEPT ![i] = buf[j], ![j] = buf[i]]

\* SIZE_MAX, which a size_t holding 0 wraps to when decremented; the largest
\* number the checker holds stands for 2^64 - 1 (every buffer is shorter)
SizeMax == 2147483647

\* the for loop of sort_combining_characters; buf is indexed from 1 here, so
\* the C index i is buf[i + 1]
RECURSIVE SortLoop(_, _)
SortLoop(buf, i) ==
    IF ~(i < Len(buf) - 1) THEN buf
    ELSE LET rclass == combining_class(buf[i + 2]) IN
         IF ~(rclass # 0 /\ HFSINRANGE(buf[i + 2])) THEN SortLoop(buf, i + 2)
         ELSE IF HFSINRANGE(buf[i + 1]) /\ combining_class(buf[i + 1]) > rclass
              THEN SortLoop(Swap(buf, i + 1, i + 2), IF i = 0 THEN SizeMax ELSE i - 1)
              ELSE SortLoop(buf, i + 1)

sort_combining_characters(buf) ==
    IF Len(buf) <= 1 THEN buf
    ELSE LET rclass == combining_class(buf[2])
             first == IF /\ HFSINRANGE(buf[1]) /\ HFSINRANGE(buf[2]) /\ rclass # 0
                         /\ combining_class(buf[1]) > rclass
                      THEN Swap(buf, 1, 2) ELSE buf
         IN SortLoop(first, 1)

RECURSIVE DecomposeAll(_)
DecomposeAll(cps) ==
    IF cps = <<>> THEN <<>>
    ELSE (IF HFSINRANGE(Head(cps)) THEN utf8proc_decompose_char(Head(cps))
          ELSE <<Head(cps)>>) \o DecomposeAll(Tail(cps))

RECURSIVE EncodeAll(_)
EncodeAll(cps) ==
    IF cps = <<>> THEN <<>> ELSE Utf8Encode(Head(cps)) \o EncodeAll(Tail(cps))

\* hfs_utf8proc_NFD: NULL for text that is not UTF-8 and for the empty text
hfs_utf8proc_NFD(u8) ==
    LET d == Codepoints(u8)
        buf == DecomposeAll(d.cps)
    IN IF ~d.ok \/ Len(buf) = 0 THEN [null |-> TRUE, s |-> NoText]
       ELSE [null |-> FALSE, s |-> EncodeAll(sort_combining_characters(buf))]

\* utf8_to_utf16 (unicode.h): the code units converted and the number of
\* invalid sequences met
utf8_to_utf16(s) ==
    LET d == Codepoints(s) IN
    [length |-> Len(d.cps), unicode |-> d.cps, err |-> IF d.ok THEN 0 ELSE 1]

\* utf16_to_utf8 (unicode.h)
utf16_to_utf8(u16) ==
    LET u8 == EncodeAll(u16) IN [len |-> Len(u8), u8 |-> u8, err |-> 0]

ENOMEM == 12

\* #define hfs_utf8proc_NFD(x) strdup((const char*)(x)), the build without utf8proc
hfs_utf8proc_NFD_strdup(u8) == [null |-> FALSE, s |-> u8]

\* hfs_pathname_from_unix once utf8_to_utf16 has converted norm to c
hfs_pathname_from_unix_return(c) ==
    [ret |-> IF c.err # 0 THEN c.err ELSE c.length, name |-> c.unicode]

\* hfs_pathname_from_unix from the normalised text norm on
hfs_pathname_from_unix_norm(norm) ==
    IF norm.null THEN [ret |-> -ENOMEM, name |-> NoText]
    ELSE hfs_pathname_from_unix_return(utf8_to_utf16(Replace(norm.s, 58, 47)))

hfs_pathname_from_unix(u8) == hfs_pathname_from_unix_norm(hfs_utf8proc_NFD(u8))

\* hfs_pathname_from_unix of the build without utf8proc
hfs_pathname_from_unix_strdup(u8) ==
    hfs_pathname_from_unix_norm(hfs_utf8proc_NFD_strdup(u8))

hfs_unistr_to_utf8(u16) ==
    LET c == utf16_to_utf8(u16) IN
    [ret |-> IF c.err # 0 THEN -c.err ELSE c.len, u8 |-> c.u8]

hfs_pathname_to_unix(u16) ==
    LET r == hfs_unistr_to_utf8(u16) IN
    IF r.ret > 0 THEN [ret |-> r.ret, u8 |-> Replace(r.u8, 47, 58)] ELSE r

------------------------------------------------------------------------------
(* The volumes: catalog records, keys, thread records, hard links (libhfs) *)

HFS_CNID_ROOT_PARENT == 1
HFS_CNID_ROOT_FOLDER == 2

HFS_REC_FLDR == "FLDR"
HFS_REC_FILE == "FILE"
HFS_HFSPLUS_CREATOR == "hfs+"
HFS_HARD_LINK_FILE_TYPE == "hlnk"
HFS_MACS_CREATOR == "MACS"
HFS_DIR_HARD_LINK_FILE_TYPE == "fdrp"
HFS_DATAFORK == "data"
HFS_RSRCFORK == "rsrc"

Folder(cnid) ==
    [type |-> HFS_REC_FLDR, cnid |-> cnid, creator |-> "", ftype |-> "", inode |-> 0]
File(cnid) ==
    [type |-> HFS_REC_FILE, cnid |-> cnid, creator |-> "", ftype |-> "", inode |-> 0]
HardLink(cnid, inode) ==
    [type |-> HFS_REC_FILE, cnid |-> cnid, creator |-> HFS_HFSPLUS_CREATOR,
     ftype |-> HFS_HARD_LINK_FILE_TYPE, inode |-> inode]
DirHardLink(cnid, inode) ==
    [type |-> HFS_REC_FILE, cnid |-> cnid, creator |-> HFS_MACS_CREATOR,
     ftype |-> HFS_DIR_HARD_LINK_FILE_TYPE, inode |-> inode]

\* what the caller's record and key hold before hfs_lookup writes them
NoRecord == [type |-> "", cnid |-> 0, creator |-> "", ftype |-> "", inode |-> 0]
NoKey == [parent_cnid |-> 0, name |-> NoText]

Entry(parent, name, rec) == [parent |-> parent, name |-> name, rec |-> rec]

RECURSIVE Decimal(_)
Decimal(n) == IF n < 10 THEN <<48 + n>> ELSE Decimal(n \div 10) \o <<48 + (n % 10)>>

\* "iNode<n>" and "dir_<n>", the names of the indirect nodes
INodeName(n) == <<105, 78, 111, 100, 101>> \o Decimal(n)
DirNodeName(n) == <<100, 105, 114, 95>> \o Decimal(n)

Volumes == {1, 2, 3, 4}

\* the cnid of the private metadata folders of a volume (its finder info)
PrivateDir(v) == IF v = 1 THEN 25 ELSE 0
PrivateDirDir(v) == IF v = 2 THEN 26 ELSE 0

\* Volume 1:  /a   /d/rsrc (a file named rsrc)   /h -> iNode30   /g -> iNode31 (absent)
Catalog1 ==
    { Entry(HFS_CNID_ROOT_PARENT, <<118>>, Folder(HFS_CNID_ROOT_FOLDER)),
      Entry(2, <<97>>, File(17)),
      Entry(2, <<100>>, Folder(16)),
      Entry(16, RsrcName, File(18)),
      Entry(2, <<104>>, HardLink(19, 30)),
      Entry(2, <<103>>, HardLink(20, 31)),
      Entry(2, <<112>>, Folder(25)),
      Entry(25, INodeName(30), File(30)) }

\* Volume 2:  /l -> dir_32 (holding a)   /k -> dir_34 (absent)
\*            a file named e + U+0301    a file named "/" (":" to UNIX)
Catalog2 ==
    { Entry(HFS_CNID_ROOT_PARENT, <<119>>, Folder(HFS_CNID_ROOT_FOLDER)),
      Entry(2, <<108>>, DirHardLink(21, 32)),
      Entry(2, <<107>>, DirHardLink(22, 34)),
      Entry(2, <<101, 769>>, File(23)),
      Entry(2, <<47>>, File(24)),
      Entry(2, <<113>>, Folder(26)),
      Entry(26, DirNodeName(32), Folder(32)),
      Entry(32, <<97>>, File(33)) }

\* Volume 3:  a damaged volume whose root folder cannot be found
Catalog3 == {}

\* Volume 4:  /a/rsrc (a is a folder here)   /d (a file here)
Catalog4 ==
    { Entry(HFS_CNID_ROOT_PARENT, <<120>>, Folder(HFS_CNID_ROOT_FOLDER)),
      Entry(2, <<97>>, Folder(40)),
      Entry(40, RsrcName, File(41)),
      Entry(2, <<100>>, File(42)) }

Catalog(v) ==
    CASE v = 1 -> Catalog1 [] v = 2 -> Catalog2 [] v = 3 -> Catalog3 [] v = 4 -> Catalog4

\* the non-zero result of a libhfs search that failed; hfs_lookup tests it
\* against 0 and negates it
HFSLIB_FAILURE == 1

hfslib_make_catalog_key(parent, name) == [parent_cnid |-> parent, name |-> name]

\* the record stored under a key
hfslib_find_catalog_record_with_key(v, key) ==
    LET hit == {e \in Catalog(v) : e.parent = key.parent_cnid /\ e.name = key.name} IN
    IF hit = {} THEN [ret |-> HFSLIB_FAILURE, rec |-> NoRecord]
    ELSE [ret |-> 0, rec |-> (CHOOSE e \in hit : TRUE).rec]

\* the thread record of cnid: its parent and its name; parent 0 when absent
hfslib_find_parent_thread(v, cnid) ==
    LET hit == {e \in Catalog(v) : e.rec.cnid = cnid} IN
    IF hit = {} THEN [parent |-> 0, name |-> NoText]
    ELSE LET e == CHOOSE e \in hit : TRUE IN [parent |-> e.parent, name |-> e.name]

\* the thread of cnid, then the record under the thread's key
hfslib_find_catalog_record_with_cnid(v, cnid) ==
    LET t == hfslib_find_parent_thread(v, cnid) IN
    IF t.parent = 0 THEN [ret |-> HFSLIB_FAILURE, rec |-> NoRecord, key |-> NoKey]
    ELSE LET key == hfslib_make_catalog_key(t.parent, t.name)
             r == hfslib_find_catalog_record_with_key(v, key)
         IN [ret |-> r.ret, rec |-> r.rec, key |-> key]

hfslib_get_hardlink(v, inode) ==
    hfslib_find_catalog_record_with_key(
        v, hfslib_make_catalog_key(PrivateDir(v), INodeName(inode)))

hfslib_get_directory_hardlink(v, inode) ==
    hfslib_find_catalog_record_with_key(
        v, hfslib_make_catalog_key(PrivateDirDir(v), DirNodeName(inode)))

------------------------------------------------------------------------------
(* The record cache: head and the ring it points into.                      *)
(* cache.init is head # NULL; cache.ring[i] is the node i - 1 next-steps    *)
(* from head, so the last one is head->prev.                                *)

FreeNode == [used |-> FALSE, path |-> <<>>, record |-> NoRecord, key |-> NoKey]

NoCache == [init |-> FALSE, ring |-> <<>>]

\* head and RING_BUFFER_SIZE further nodes, every path NULL
ringbuffer_init == [init |-> TRUE, ring |-> [i \in 1..(RING_BUFFER_SIZE + 1) |-> FreeNode]]

\* the do-while of ringbuffer_lookup from node i on
RECURSIVE ringbuffer_scan(_, _, _)
ringbuffer_scan(ring, i, path) ==
    IF ~ring[i].used THEN [found |-> FALSE, record |-> NoRecord, key |-> NoKey]
    ELSE IF ring[i].path = path
         THEN [found |-> TRUE, record |-> ring[i].record, key |-> ring[i].key]
    ELSE IF i = Len(ring) THEN [found |-> FALSE, record |-> NoRecord, key |-> NoKey]
    ELSE ringbuffer_scan(ring, i + 1, path)

ringbuffer_lookup(c, path) ==
    IF ~c.init THEN [found |-> FALSE, record |-> NoRecord, key |-> NoKey]
    ELSE ringbuffer_scan(c.ring, 1, path)

\* ringbuffer_add without "tail->key = *key": the node keeps its old key
ringbuffer_add_stale_key(c, path, record, key) ==
    IF ~c.init THEN c
    ELSE [c EXCEPT !.ring =
            <<[used |-> TRUE, path |-> path, record |-> record,
               key |-> c.ring[Len(c.ring)].key]>>
            \o SubSeq(c.ring, 1, Len(c.ring) - 1)]

ringbuffer_add(c, path, record, key) ==
    IF ~c.init THEN c
    ELSE [c EXCEPT !.ring =
            <<[used |-> TRUE, path |-> path, record |-> record, key |-> key]>>
            \o SubSeq(c.ring, 1, Len(c.ring) - 1)]

------------------------------------------------------------------------------
(* hfs_lookup *)

NullPtr == [null |-> TRUE, elems |-> <<>>]

\* strsep(&splitptr, "/") on a non-NULL splitptr: the element cut off and the
\* new splitptr, NULL once the text is used up
strsep(sp) ==
    [pelem |-> Head(sp.elems),
     sp |-> IF Len(sp.elems) = 1 THEN NullPtr
            ELSE [null |-> FALSE, elems |-> Tail(sp.elems)]]

IsDirHardLink(record) ==
    /\ record.type = HFS_REC_FILE
    /\ record.creator = HFS_MACS_CREATOR
    /\ record.ftype = HFS_DIR_HARD_LINK_FILE_TYPE

IsHardLink(record) ==
    /\ record.type = HFS_REC_FILE
    /\ record.creator = HFS_HFSPLUS_CREATOR
    /\ record.ftype = HFS_HARD_LINK_FILE_TYPE

\* what the while loop of hfs_lookup leaves: ret # 0 is a RET() taken inside it
WalkState(ret, record, key, sp) == [ret |-> ret, record |-> record, key |-> key, sp |-> sp]

RECURSIVE hfs_lookup_walk(_, _, _, _)

\* the record d that hfslib_get_directory_hardlink gave for a directory hard link
hfs_lookup_walk_dirlink(v, key, sp, d) ==
    IF d.ret # 0 THEN WalkState(-7, d.rec, key, sp)
    ELSE hfs_lookup_walk(v, d.rec, key, sp)

\* the record f that hfslib_find_catalog_record_with_key gave for key
hfs_lookup_walk_found(v, key, sp, f) ==
    IF f.ret # 0 THEN WalkState(-f.ret, f.rec, key, sp)
    ELSE IF IsDirHardLink(f.rec)
         THEN hfs_lookup_walk_dirlink(v, key, sp,
                                      hfslib_get_directory_hardlink(v, f.rec.inode))
         ELSE hfs_lookup_walk(v, f.rec, key, sp)

\* the key made of the folder's cnid and the converted name
hfs_lookup_walk_key(v, sp, k) ==
    hfs_lookup_walk_found(v, k, sp, hfslib_find_catalog_record_with_key(v, k))

\* the element pelem converted to upath
hfs_lookup_walk_name(v, record, key, sp, upath) ==
    IF upath.ret < 0 THEN WalkState(-3, record, key, sp)
    ELSE hfs_lookup_walk_key(v, sp, hfslib_make_catalog_key(record.cnid, upath.name))

\* the element s.pelem cut off by strsep
hfs_lookup_walk_elem(v, record, key, s) ==
    IF s.pelem = <<>> THEN WalkState(0, record, key, s.sp)
    ELSE hfs_lookup_walk_name(v, record, key, s.sp, hfs_pathname_from_unix(s.pelem))

\* the while loop of hfs_lookup
hfs_lookup_walk(v, record, key, sp) ==
    IF record.type # HFS_REC_FLDR \/ sp.null THEN WalkState(0, record, key, sp)
    ELSE hfs_lookup_walk_elem(v, record, key, strsep(sp))

\* hfs_lookup_rest without the strcmp: any text left after a file selects
\* the resource fork
hfs_lookup_rest_any(record, sp) ==
    IF sp.null THEN [ret |-> 0, fork |-> HFS_DATAFORK]
    ELSE IF record.type # HFS_REC_FILE
         THEN [ret |-> -5, fork |-> HFS_DATAFORK]
         ELSE [ret |-> 0, fork |-> HFS_RSRCFORK]

\* if(splitptr): what is left of the path once the walk has stopped
hfs_lookup_rest(record, sp) ==
    IF sp.null THEN [ret |-> 0, fork |-> HFS_DATAFORK]
    ELSE IF record.type # HFS_REC_FILE \/ sp.elems # <<RsrcName>>
         THEN [ret |-> -5, fork |-> HFS_DATAFORK]
         ELSE [ret |-> 0, fork |-> HFS_RSRCFORK]

\* hfs_lookup_hardlink that reports success without following the link
hfs_lookup_hardlink_stub(v, record) == [ret |-> 0, record |-> record]

\* the file hard link of the final record
hfs_lookup_hardlink(v, record) ==
    LET h == hfslib_get_hardlink(v, record.inode) IN
    IF IsHardLink(record)
    THEN IF h.ret # 0 THEN [ret |-> -6, record |-> h.rec]
         ELSE [ret |-> 0, record |-> h.rec]
    ELSE [ret |-> 0, record |-> record]

\* what hfs_lookup hands back, the cache apart, and the splitptr it ends with
Returned(ret, record, key, fork, sp) ==
    [ret |-> ret, record |-> record, key |-> key, fork |-> fork, sp |-> sp]

\* the walk w and the rest r done: the file hard link h decides
hfs_lookup_after_hardlink(w, r, h) == Returned(h.ret, h.record, w.key, r.fork, w.sp)

\* the walk w done and what it left looked at
hfs_lookup_after_rest(v, w, r) ==
    IF r.ret # 0 THEN Returned(r.ret, w.record, w.key, HFS_DATAFORK, w.sp)
    ELSE hfs_lookup_after_hardlink(w, r, hfs_lookup_hardlink(v, w.record))

hfs_lookup_after_walk(v, w) ==
    IF w.ret # 0 THEN Returned(w.ret, w.record, w.key, HFS_DATAFORK, w.sp)
    ELSE hfs_lookup_after_rest(v, w, hfs_lookup_rest(w.record, w.sp))

hfs_lookup_from_root(v, path, root) ==
    IF root.ret # 0 THEN Returned(-7, root.rec, root.key, HFS_DATAFORK, NullPtr)
    ELSE hfs_lookup_after_walk(
             v, hfs_lookup_walk(v, root.rec, root.key, [null |-> FALSE, elems |-> path]))

\* hfs_lookup from the root record on, the cache apart
hfs_lookup_catalog(v, path) ==
    hfs_lookup_from_root(
        v, path, hfslib_find_catalog_record_with_cnid(v, HFS_CNID_ROOT_FOLDER))

\* the paths handed to hfs_lookup
Paths ==
    LET a == <<97>>  d == <<100>>  h == <<104>>  g == <<103>>  l == <<108>>
        k == <<107>>  z == <<122>>  none == <<>>
        eacute == <<195, 169>>          \* U+00E9
        colon == <<58>>
        bad == <<255>>                  \* not UTF-8
    IN { <<none>>,                                  \* "/"
         <<a>>, <<a, none>>, <<a, RsrcName>>, <<a, z>>,
         <<d>>, <<d, RsrcName>>, <<d, RsrcName, RsrcName>>,
         <<d, none, RsrcName>>, <<d, bad>>,
         <<h>>, <<h, RsrcName>>, <<g>>,
         <<l>>, <<l, a>>, <<k>>, <<k, a>>,
         <<eacute>>, <<colon>>, <<bad>>, <<z>> }

\* hfs_lookup_catalog, worked out once for every volume and path
Resolved == [v \in Volumes |-> [path \in Paths |-> hfs_lookup_catalog(v, path)]]

\* hfs_lookup_cache reached on the failing paths too
hfs_lookup_cache_errors(c, ret, sp, path, record, key) ==
    IF sp.null THEN ringbuffer_add(c, path, record, key) ELSE c

\* hfs_lookup_cache without the if(!splitptr)
hfs_lookup_cache_rsrc(c, ret, sp, path, record, key) ==
    IF ret = 0 THEN ringbuffer_add(c, path, record, key) ELSE c

\* if(!splitptr) ringbuffer_add(path,record,key), which only a lookup that
\* has not returned before reaches (ret = 0)
hfs_lookup_cache(c, ret, sp, path, record, key) ==
    IF ret = 0 /\ sp.null THEN ringbuffer_add(c, path, record, key) ELSE c

\* the cache asked (hit) and, when it misses, the catalog's answer r
hfs_lookup_answer(c, path, hit, r) ==
    IF hit.found
    THEN [ret |-> 0, record |-> hit.record, key |-> hit.key, fork |-> HFS_DATAFORK,
          cache |-> c, hit |-> TRUE]
    ELSE [ret |-> r.ret, record |-> r.record, key |-> r.key, fork |-> r.fork,
          cache |-> hfs_lookup_cache(c, r.ret, r.sp, path, r.record, r.key),
          hit |-> FALSE]

hfs_lookup(c, v, path) ==
    hfs_lookup_answer(c, path, ringbuffer_lookup(c, path), Resolved[v][path])

------------------------------------------------------------------------------
(* hfs_get_path *)

\* the thread names from cnid up to the root folder, root-most first; ok is
\* FALSE when a parent thread is missing (goto end with out = NULL)
RECURSIVE hfs_get_path_elements(_, _)
hfs_get_path_elements(v, cnid) ==
    IF cnid = HFS_CNID_ROOT_FOLDER THEN [ok |-> TRUE, elements |-> <<>>]
    ELSE LET t == hfslib_find_parent_thread(v, cnid) IN
         IF t.parent = 0 THEN [ok |-> FALSE, elements |-> <<>>]
         ELSE LET up == hfs_get_path_elements(v, t.parent) IN
              [ok |-> up.ok, elements |-> up.elements \o <<t.name>>]

\* memory not written since malloc
Junk == -1

\* bytes stored at C index at of buf (buf[j] is C index j - 1); a store past
\* the end of the allocation is dropped here and reported by Overruns
PutBytes(buf, at, bytes) ==
    [j \in 1..Len(buf) |->
        IF j - 1 >= at /\ j - 1 < at + Len(bytes) THEN bytes[j - at] ELSE buf[j]]

Overruns(buf, at, bytes) == at + Len(bytes) > Len(buf)

\* the while(elem != elements) loop: each name converted at it, then it
\* advanced by the name's UTF-16 length and a '/' stored
RECURSIVE hfs_get_path_fill(_, _, _, _)
hfs_get_path_fill(buf, it, elements, over) ==
    IF elements = <<>> THEN [buf |-> buf, over |-> over]
    ELSE LET elem == Head(elements)
             u8 == hfs_pathname_to_unix(elem).u8 \o <<0>>
             b1 == PutBytes(buf, it, u8)
             it2 == it + Len(elem)
             b2 == PutBytes(b1, it2, <<47>>)
         IN hfs_get_path_fill(b2, it2 + 1, Tail(elements),
                              over \/ Overruns(buf, it, u8) \/ Overruns(buf, it2, <<47>>))

\* the bytes of a C string: those before its first NUL
RECURSIVE CString(_)
CString(buf) ==
    IF buf = <<>> \/ Head(buf) = 0 THEN <<>> ELSE <<Head(buf)>> \o CString(Tail(buf))

RECURSIVE SumLen(_)
SumLen(elements) ==
    IF elements = <<>> THEN 0 ELSE Len(Head(elements)) + 1 + SumLen(Tail(elements))

hfs_get_path(v, cnid) ==
    LET e == hfs_get_path_elements(v, cnid)
        sum == SumLen(e.elements)
        len == IF sum = 0 THEN 1 ELSE sum
        out == PutBytes([j \in 1..(len + 1) |-> Junk], 0, <<47>>)
        f == hfs_get_path_fill(out, 1, e.elements, FALSE)
    IN IF ~e.ok THEN [null |-> TRUE, out |-> NoText, over |-> FALSE]
       ELSE [null |-> FALSE, out |-> CString(PutBytes(f.buf, len, <<0>>)),
             over |-> f.over]

------------------------------------------------------------------------------
(* hfs_open and hfs_close *)

ENOENT == 2
EINVAL == 22
ENOTTY == 25

\* st_mode of the opened file
S_IFCHR == "chr"
S_IFBLK == "blk"
S_IFREG == "reg"
S_IFIFO == "fifo"
Modes == {S_IFCHR, S_IFBLK, S_IFREG, S_IFIFO}

\* the sizes a device or a file system reports, in bytes; 0 is nothing to report
Sizes == {512 * k : k \in 0..MaxSizeBlocks}

\* what an ioctl stores through its argument, or -1 when it fails
IoctlResults == Sizes \cup {-1}

\* the block size hfs_open falls back to
DefaultBlockSize == 512

\* no device: the calloc'ed struct hf_device before open()
NoDevice ==
    [isopen |-> FALSE, ret |-> 0, blksize |-> 0,
     mode |-> S_IFREG, ideal |-> 0, physical |-> 0, st_blksize |-> 0]

\* dev->blksize as hfs_open sets it after fstat, err # 0 for a BAIL(err);
\* ideal and physical are what ioctl(DISKIDEALSIZE) and ioctl(DISKBLOCKSIZE)
\* would store, -1 for an ioctl that fails
hfs_open_blksize(mode, ideal, physical, st_blksize) ==
    IF mode \in {S_IFCHR, S_IFBLK}
    THEN IF ideal < 0 THEN [err |-> ENOTTY, blksize |-> 0]
         ELSE IF ideal = 0 /\ physical < 0 THEN [err |-> ENOTTY, blksize |-> 0]
         ELSE IF ideal # 0 THEN [err |-> 0, blksize |-> ideal]
         ELSE IF physical # 0 THEN [err |-> 0, blksize |-> physical]
         ELSE [err |-> 0, blksize |-> DefaultBlockSize]
    ELSE IF mode = S_IFREG THEN [err |-> 0, blksize |-> st_blksize]
    ELSE [err |-> EINVAL, blksize |-> 0]

\* hfs_open(vol, name, cbargs) on a file with the given properties; exists is
\* whether open(name, O_RDONLY) succeeds
hfs_open(exists, mode, ideal, physical, st_blksize) ==
    LET b == hfs_open_blksize(mode, ideal, physical, st_blksize) IN
    IF ~exists
    THEN [NoDevice EXCEPT !.ret = -ENOENT]
    ELSE [isopen |-> b.err = 0, ret |-> -b.err, blksize |-> b.blksize,
          mode |-> mode, ideal |-> ideal, physical |-> physical,
          st_blksize |-> st_blksize]

\* hfs_open(vol, name, cbargs)
HfsOpen ==
    /\ ~dev.isopen
    /\ \E exists \in BOOLEAN, mode \in Modes, ideal \in IoctlResults,
          physical \in IoctlResults, st_blksize \in Sizes \ {0} :
          dev' = hfs_open(exists, mode, ideal, physical, st_blksize)
    /\ UNCHANGED <<conv, thr, sorted, open, cache, last, added, rd>>

\* hfs_close(vol, cbargs)
HfsClose ==
    /\ dev.isopen
    /\ dev' = NoDevice
    /\ UNCHANGED <<conv, thr, sorted, open, cache, last, added, rd>>

------------------------------------------------------------------------------
(* One turn of the loop of hfs_lookup, in the builds with and without utf8proc *)

\* the bytes path elements are made of: a : e, U+00E9 (195 169), U+0301
\* (204 129), and 255, which no UTF-8 text holds
ElementBytes == {97, 58, 101, 195, 169, 204, 129, 255}

\* the path elements of at most MaxElementLen bytes
Elements == UNION {[1..n -> ElementBytes] : n \in 1..MaxElementLen}

NoConversion ==
    [utf8proc |-> TRUE, pelem |-> NoText, upath |-> [ret |-> 0, name |-> NoText],
     walk |-> WalkState(0, NoRecord, NoKey, NullPtr)]

\* the body of the while loop of hfs_lookup for the element pelem of the root
\* folder of volume v, the last of its path
LookupElement ==
    /\ \E v \in open, pelem \in Elements :
         LET root == hfslib_find_catalog_record_with_cnid(v, HFS_CNID_ROOT_FOLDER)
             upath == IF conv.utf8proc THEN hfs_pathname_from_unix(pelem)
                      ELSE hfs_pathname_from_unix_strdup(pelem)
         IN conv' = [conv EXCEPT
                       !.pelem = pelem, !.upath = upath,
                       !.walk = hfs_lookup_walk_name(v, root.rec, root.key, NullPtr, upath)]
    /\ UNCHANGED <<thr, sorted, dev, open, cache, last, added, rd>>

------------------------------------------------------------------------------
(* The record cache called by several threads at once: head, the nodes of    *)
(* the ring on the heap and cachelock, one action per step of a function     *)

Threads == 1..MaxThreads

\* the nodes ringbuffer_init allocates, by address; tail->next and tail->prev
\* are set once by ringbuffer_init and never change
RingNodes == 1..(RING_BUFFER_SIZE + 1)
NULL == 0
next(n) == IF n = RING_BUFFER_SIZE + 1 THEN 1 ELSE n + 1
prev(n) == IF n = 1 THEN RING_BUFFER_SIZE + 1 ELSE n - 1

\* the paths threads look up and add; "" is path == NULL
ThreadPaths == {"/a", "/d"}

IdleThread ==
    [pc |-> "idle", op |-> "none", path |-> "", it |-> NULL, end |-> NULL,
     ret |-> FALSE, late |-> FALSE]

\* head == NULL: ringbuffer_init was never called
NoThreads ==
    [head |-> NULL,
     nodes |-> [n \in RingNodes |-> [freed |-> TRUE, path |-> ""]],
     lock |-> [readers |-> {}, writer |-> NULL, destroyed |-> FALSE],
     t |-> [i \in Threads |-> IdleThread],
     uaf |-> FALSE, badlock |-> FALSE]

\* head, the heap and cachelock as ringbuffer_init leaves them
ThreadsAfterInit ==
    [NoThreads EXCEPT !.head = 1,
                      !.nodes = [n \in RingNodes |-> [freed |-> FALSE, path |-> ""]]]

\* a function entered by thread i: op is called with path, and its first
\* statement, if(!head) return, is done; pc is where it goes on when head is set
Enter(i, op, path, pc) ==
    /\ thr.t[i].pc = "idle"
    /\ thr' = [thr EXCEPT
                 !.t[i] = [IdleThread EXCEPT
                             !.op = op, !.path = path, !.late = thr.lock.destroyed,
                             !.pc = IF thr.head = NULL THEN "idle" ELSE pc]]

\* pthread_rwlock_rdlock(&cachelock) by thread i, which goes on at pc; the
\* return value is not looked at, so on a destroyed lock the thread goes on
\* without the lock
RdLock(i, pc) ==
    IF thr.lock.destroyed
    THEN thr' = [thr EXCEPT !.badlock = TRUE, !.t[i].pc = pc]
    ELSE /\ thr.lock.writer = NULL
         /\ thr' = [thr EXCEPT !.lock.readers = @ \cup {i}, !.t[i].pc = pc]

\* pthread_rwlock_wrlock(&cachelock) by thread i
WrLock(i, pc) ==
    IF thr.lock.destroyed
    THEN thr' = [thr EXCEPT !.badlock = TRUE, !.t[i].pc = pc]
    ELSE /\ thr.lock.writer = NULL
         /\ thr.lock.readers = {}
         /\ thr' = [thr EXCEPT !.lock.writer = i, !.t[i].pc = pc]

\* cachelock after pthread_rwlock_unlock(&cachelock) by thread i
Unlocked(i) ==
    [readers |-> thr.lock.readers \ {i},
     writer |-> IF thr.lock.writer = i THEN NULL ELSE thr.lock.writer,
     destroyed |-> thr.lock.destroyed]

\* thread i unlocks cachelock and returns ret
UnlockReturn(i, ret) ==
    thr' = [thr EXCEPT !.lock = Unlocked(i),
                       !.badlock = @ \/ thr.lock.destroyed,
                       !.t[i].pc = "idle", !.t[i].ret = ret]

\* ringbuffer_lookup(path, record, key) entered
LookupEnter ==
    /\ \E i \in Threads, path \in ThreadPaths :
          Enter(i, "ringbuffer_lookup", path, "lookup_rdlock")
    /\ UNCHANGED <<conv, sorted, dev, open, cache, last, added, rd>>

LookupRdLock ==
    /\ \E i \in Threads : thr.t[i].pc = "lookup_rdlock" /\ RdLock(i, "lookup_head")
    /\ UNCHANGED <<conv, sorted, dev, open, cache, last, added, rd>>

\* struct recordcache* it = head
LookupHead ==
    /\ \E i \in Threads :
          /\ thr.t[i].pc = "lookup_head"
          /\ thr' = [thr EXCEPT !.t[i].it = thr.head, !.t[i].pc = "lookup_loop"]
    /\ UNCHANGED <<conv, sorted, dev, open, cache, last, added, rd>>

\* one turn of the do-while loop of ringbuffer_lookup by thread i: it->path is
\* read; in a freed node anything may be found, a path that matches or not
LookupLoop ==
    /\ \E i \in Threads :
          LET it == thr.t[i].it IN
          /\ thr.t[i].pc = "lookup_loop"
          /\ IF thr.nodes[it].freed
             THEN \E found \in BOOLEAN :
                     thr' = [thr EXCEPT !.uaf = TRUE, !.t[i].ret = found,
                                        !.t[i].pc = "lookup_unlock"]
             ELSE IF thr.nodes[it].path = ""
                  THEN thr' = [thr EXCEPT !.t[i].pc = "lookup_unlock"]
             ELSE IF thr.nodes[it].path = thr.t[i].path
                  THEN thr' = [thr EXCEPT !.t[i].ret = TRUE, !.t[i].pc = "lookup_unlock"]
             ELSE thr' = [thr EXCEPT
                            !.t[i].it = next(it),
                            !.t[i].pc = IF next(it) # thr.head THEN "lookup_loop"
                                        ELSE "lookup_unlock"]
    /\ UNCHANGED <<conv, sorted, dev, open, cache, last, added, rd>>

LookupUnlock ==
    /\ \E i \in Threads :
          thr.t[i].pc = "lookup_unlock" /\ UnlockReturn(i, thr.t[i].ret)
    /\ UNCHANGED <<conv, sorted, dev, open, cache, last, added, rd>>

\* ringbuffer_add(path, record, key) entered
AddEnter ==
    /\ \E i \in Threads, path \in ThreadPaths :
          Enter(i, "ringbuffer_add", path, "add_wrlock")
    /\ UNCHANGED <<conv, sorted, dev, open, cache, last, added, rd>>

AddWrLock ==
    /\ \E i \in Threads : thr.t[i].pc = "add_wrlock" /\ WrLock(i, "add_tail")
    /\ UNCHANGED <<conv, sorted, dev, open, cache, last, added, rd>>

\* tail = head->prev; tail->path = realloc(...); strcpy; head = tail: head->prev
\* is read from the node head points to and the node before it is written
AddTail ==
    /\ \E i \in Threads :
          LET tail == prev(thr.head) IN
          /\ thr.t[i].pc = "add_tail"
          /\ thr' = [thr EXCEPT
                       !.uaf = @ \/ thr.nodes[thr.head].freed \/ thr.nodes[tail].freed,
                       !.nodes[tail].path = thr.t[i].path,
                       !.head = tail,
                       !.t[i].pc = "add_unlock"]
    /\ UNCHANGED <<conv, sorted, dev, open, cache, last, added, rd>>

AddUnlock ==
    /\ \E i \in Threads : thr.t[i].pc = "add_unlock" /\ UnlockReturn(i, FALSE)
    /\ UNCHANGED <<conv, sorted, dev, open, cache, last, added, rd>>

\* ringbuffer_destroy() entered
DestroyEnter ==
    /\ \E i \in Threads : Enter(i, "ringbuffer_destroy", "", "destroy_wrlock")
    /\ UNCHANGED <<conv, sorted, dev, open, cache, last, added, rd>>

DestroyWrLock ==
    /\ \E i \in Threads : thr.t[i].pc = "destroy_wrlock" /\ WrLock(i, "destroy_end")
    /\ UNCHANGED <<conv, sorted, dev, open, cache, last, added, rd>>

\* struct recordcache* end = head
DestroyEnd ==
    /\ \E i \in Threads :
          /\ thr.t[i].pc = "destroy_end"
          /\ thr' = [thr EXCEPT !.t[i].end = thr.head, !.t[i].pc = "destroy_loop"]
    /\ UNCHANGED <<conv, sorted, dev, open, cache, last, added, rd>>

\* one turn of the do-while loop of ringbuffer_destroy: free(head->path),
\* tmp = head->next, free(head), head = tmp
DestroyLoop ==
    /\ \E i \in Threads :
          LET tmp == next(thr.head) IN
          /\ thr.t[i].pc = "destroy_loop"
          /\ thr' = [thr EXCEPT
                       !.uaf = @ \/ thr.nodes[thr.head].freed,
                       !.nodes[thr.head] = [freed |-> TRUE, path |-> ""],
                       !.head = tmp,
                       !.t[i].pc = IF tmp # thr.t[i].end THEN "destroy_loop"
                                   ELSE "destroy_unlock"]
    /\ UNCHANGED <<conv, sorted, dev, open, cache, last, added, rd>>

\* pthread_rwlock_unlock(&cachelock)
DestroyUnlock ==
    /\ \E i \in Threads :
          /\ thr.t[i].pc = "destroy_unlock"
          /\ thr' = [thr EXCEPT !.lock = Unlocked(i),
                                !.badlock = @ \/ thr.lock.destroyed,
                                !.t[i].pc = "destroy_lock"]
    /\ UNCHANGED <<conv, sorted, dev, open, cache, last, added, rd>>

\* pthread_rwlock_destroy(&cachelock), and ringbuffer_destroy returns
DestroyLock ==
    /\ \E i \in Threads :
          /\ thr.t[i].pc = "destroy_lock"
          /\ thr' = [thr EXCEPT
                       !.badlock = @ \/ thr.lock.destroyed \/ thr.lock.writer # NULL
                                     \/ thr.lock.readers # {},
                       !.lock.destroyed = TRUE,
                       !.t[i].pc = "idle"]
    /\ UNCHANGED <<conv, sorted, dev, open, cache, last, added, rd>>

------------------------------------------------------------------------------
(* sort_combining_characters on its own *)

\* the codepoints of the buffers: e, three combining marks of the range HFS+
\* decomposes and one, U+20D0, outside it
SortCodepoints == {101, 769, 803, 807, 8400}

\* the buffers buf[0..len-1] with len <= MaxSortLen
SortBuffers == UNION {[1..n -> SortCodepoints] : n \in 0..MaxSortLen}

\* no call of sort_combining_characters yet
NoSort == [buf |-> <<>>, out |-> <<>>, done |-> FALSE]

\* sort_combining_characters(buf, len) on the buffer at hand
SortCombiningCharacters ==
    /\ ~sorted.done
    /\ sorted' = [sorted EXCEPT !.out = sort_combining_characters(sorted.buf),
                                !.done = TRUE]
    /\ UNCHANGED <<conv, thr, dev, open, cache, last, added, rd>>


------------------------------------------------------------------------------
(* The calls a process makes *)

NoCall ==
    [op |-> "none", vol |-> 0, path |-> <<>>, ret |-> 0,
     record |-> NoRecord, key |-> NoKey, fork |-> HFS_DATAFORK, hit |-> FALSE,
     null |-> FALSE, out |-> NoText, over |-> FALSE]

EIO == 5

\* ublio_pread(ubfh, buf, count, off) of the coalescing layer: served is
\* whether the layer could read the device; it delivers the count bytes of the
\* device that start at off
ublio_pread(count, off, served) ==
    IF served THEN [ret |-> count, first |-> off, bytes |-> count]
    ELSE [ret |-> -1, first |-> off, bytes |-> 0]

\* hfs_read of the build with ublio once ublio_pread has returned r
hfs_read_ublio_return(r) ==
    [result |-> IF r.ret < 0 THEN -EIO ELSE 0, first |-> r.first, bytes |-> r.bytes]

\* hfs_read(vol, outbytes, length, offset, cbargs) of the build with ublio;
\* vol_offset is vol->offset, which this build does not read
hfs_read_ublio(vol_offset, length, offset, served) ==
    hfs_read_ublio_return(ublio_pread(length, offset, served))

NoRead ==
    [pc |-> "idle", blksize |-> 1, want |-> 0, rem |-> 0, length |-> 0, offset |-> 0,
     outbuf |-> 0, ret |-> 0, hi |-> 0, copied |-> 0, tail |-> 0, result |-> 0,
     arg |-> 0, voloff |-> 0, ublio |-> hfs_read_ublio(0, 0, 0, TRUE)]

\* ringbuffer_init()
RingbufferInit ==
    /\ ~cache.init
    /\ cache' = ringbuffer_init
    /\ UNCHANGED <<conv, thr, sorted, dev, open, last, added, rd>>

\* hfs_lookup has returned r
HfsLookupReturns(v, path, r) ==
    /\ cache' = r.cache
    /\ last' = [NoCall EXCEPT !.op = "hfs_lookup", !.vol = v, !.path = path,
                              !.ret = r.ret, !.record = r.record,
                              !.key = r.key, !.fork = r.fork, !.hit = r.hit]

\* hfs_lookup(vol, path, &record, &key, &fork)
HfsLookup ==
    /\ \E v \in open, path \in Paths : HfsLookupReturns(v, path, hfs_lookup(cache, v, path))
    /\ UNCHANGED <<conv, thr, sorted, dev, open, added, rd>>

\* hfs_get_path(vol, record.cnid) on the record a successful lookup returned
HfsGetPath ==
    /\ last.op = "hfs_lookup"
    /\ last.ret = 0
    /\ LET r == hfs_get_path(last.vol, last.record.cnid) IN
       last' = [last EXCEPT !.op = "hfs_get_path", !.null = r.null, !.out = r.out,
                            !.over = r.over]
    /\ UNCHANGED <<conv, thr, sorted, dev, open, cache, added, rd>>

\* the paths and records handed to the cache by direct calls
RingPaths == {<<<<97>>>>, <<<<100>>>>, <<<<104>>>>, <<<<122>>>>}

\* ringbuffer_add(path, &record, &key)
RingbufferAdd ==
    \E path \in RingPaths :
        LET record == File(Head(Head(path)))
            key == hfslib_make_catalog_key(HFS_CNID_ROOT_FOLDER, Head(path))
        IN /\ cache.init
           /\ Len(added) < MaxAdds
           /\ cache' = ringbuffer_add(cache, path, record, key)
           /\ added' = Append(added, path)
           /\ UNCHANGED <<conv, thr, sorted, dev, open, last, rd>>

\* ringbuffer_lookup(path, &record, &key)
RingbufferLookup ==
    \E path \in RingPaths :
        LET r == ringbuffer_lookup(cache, path) IN
        /\ last' = [NoCall EXCEPT !.op = "ringbuffer_lookup", !.path = path,
                                  !.hit = r.found, !.record = r.record, !.key = r.key]
        /\ UNCHANGED <<conv, thr, sorted, dev, open, cache, added, rd>>

------------------------------------------------------------------------------
(* hfs_read, the build without ublio *)

\* min(a, b) of a uint64_t a and an ssize_t b: the comparison is made after
\* b is converted to uint64_t, so a negative b is larger than any a
c_min(a, b) == IF b < 0 THEN a ELSE Min(a, b)

\* the bytes the loop moves on for a pread result ret > 0
hfs_read_advance(length, ret) == c_min(length, ret)

\* hfs_read_tail_copy without the min: what pread returned is copied
hfs_read_tail_copy_all(rem, ret) == ret

\* the bytes memcpy moves from the block read for the tail
hfs_read_tail_copy(rem, ret) == c_min(rem, ret)

\* hfs_read(vol, outbytes, length, offset, cbargs) entered: the lines before
\* the loop; ublio is what the build with ublio does with the same arguments
ReadCall ==
    \E blksize \in 1..MaxBlk, length \in 0..MaxLength,
       offset \in 0..MaxOffset, voloff \in 0..MaxOffset, served \in BOOLEAN :
        /\ rd.pc \in {"idle", "done"}
        /\ rd' = [pc |-> "loop", blksize |-> blksize, want |-> length,
                  rem |-> length % blksize, length |-> length - (length % blksize),
                  offset |-> offset + voloff, outbuf |-> 0, ret |-> 0,
                  hi |-> 0, copied |-> 0, tail |-> 0, result |-> 0,
                  arg |-> offset, voloff |-> voloff,
                  ublio |-> hfs_read_ublio(voloff, length, offset, served)]
        /\ UNCHANGED <<conv, thr, sorted, dev, open, cache, last, added>>

\* one pread of the while loop: r bytes read (r > 0), end of file (0) or an
\* error (-1)
ReadPread ==
    /\ rd.pc = "loop"
    /\ rd.length # 0
    /\ \E r \in -1..rd.length :
          LET ret == hfs_read_advance(rd.length, r) IN
          IF r > 0 /\ ret > 0
          THEN rd' = [rd EXCEPT !.ret = ret, !.outbuf = @ + ret, !.offset = @ + ret,
                                !.length = @ - ret,
                                !.hi = IF rd.outbuf + r > @ THEN rd.outbuf + r ELSE @,
                                !.copied = @ + ret]
          ELSE rd' = [rd EXCEPT !.ret = r, !.pc = "after"]
    /\ UNCHANGED <<conv, thr, sorted, dev, open, cache, last, added>>

\* the loop left with length = 0
ReadLoopEnd ==
    /\ rd.pc = "loop"
    /\ rd.length = 0
    /\ rd' = [rd EXCEPT !.pc = "after"]
    /\ UNCHANGED <<conv, thr, sorted, dev, open, cache, last, added>>

\* if(ret < 0) return -errno; if(rem) the block of the tail is read and
\* copied; if(ret < 0) return -errno; return 0
ReadTail ==
    /\ rd.pc = "after"
    /\ IF rd.ret < 0 THEN rd' = [rd EXCEPT !.pc = "done", !.result = -EIO]
       ELSE IF rd.rem = 0 THEN rd' = [rd EXCEPT !.pc = "done", !.result = 0]
       ELSE \E r \in -1..rd.blksize :
               LET ret == hfs_read_tail_copy(rd.rem, r) IN
               rd' = [rd EXCEPT
                        !.pc = "done", !.tail = r, !.ret = ret,
                        !.hi = IF ret > 0 /\ rd.outbuf + ret > @
                               THEN rd.outbuf + ret ELSE @,
                        !.copied = IF ret > 0 /\ r > 0 THEN @ + Min(ret, r) ELSE @,
                        !.result = IF ret < 0 THEN -EIO ELSE 0]
    /\ UNCHANGED <<conv, thr, sorted, dev, open, cache, last, added>>

Init ==
    /\ \E v \in Volumes : open = {v}
    /\ cache = NoCache
    /\ last = NoCall
    /\ added = <<>>
    /\ rd = NoRead
    /\ dev = NoDevice
    /\ conv = NoConversion
    /\ thr = NoThreads
    /\ sorted = NoSort

Next == RingbufferInit \/ HfsLookup \/ HfsGetPath

\* one volume open, as hfsdump and hfsfuse have
Spec == Init /\ [][Next]_vars

\* two volumes open in one process
InitVols ==
    /\ \E w \in Volumes \ {1} : open = {1, w}
    /\ cache = NoCache
    /\ last = NoCall
    /\ added = <<>>
    /\ rd = NoRead
    /\ dev = NoDevice
    /\ conv = NoConversion
    /\ thr = NoThreads
    /\ sorted = NoSort

SpecVols == InitVols /\ [][Next]_vars

\* the record cache called directly
NextRing == RingbufferInit \/ RingbufferAdd \/ RingbufferLookup

InitOne ==
    /\ open = {1}
    /\ cache = NoCache
    /\ last = NoCall
    /\ added = <<>>
    /\ rd = NoRead
    /\ dev = NoDevice
    /\ conv = NoConversion
    /\ thr = NoThreads
    /\ sorted = NoSort

SpecRing == InitOne /\ [][NextRing]_vars

\* the read callback of one open volume
NextRead == ReadCall \/ ReadPread \/ ReadLoopEnd \/ ReadTail

SpecRead == InitOne /\ [][NextRead]_vars

\* opening and closing the device of a volume
NextOpen == HfsOpen \/ HfsClose

SpecOpen == InitOne /\ [][NextOpen]_vars

\* path elements converted and looked up in the root folder, in a build made
\* with or without utf8proc
InitName ==
    /\ open = {1}
    /\ cache = NoCache
    /\ last = NoCall
    /\ added = <<>>
    /\ rd = NoRead
    /\ dev = NoDevice
    /\ \E b \in BOOLEAN : conv = [NoConversion EXCEPT !.utf8proc = b]
    /\ thr = NoThreads
    /\ sorted = NoSort

NextName == LookupElement

SpecName == InitName /\ [][NextName]_vars

\* threads of one process calling the record cache after ringbuffer_init
InitThreads ==
    /\ open = {1}
    /\ cache = NoCache
    /\ last = NoCall
    /\ added = <<>>
    /\ rd = NoRead
    /\ dev = NoDevice
    /\ conv = NoConversion
    /\ thr = ThreadsAfterInit
    /\ sorted = NoSort

NextThreads ==
    \/ LookupEnter \/ LookupRdLock \/ LookupHead \/ LookupLoop \/ LookupUnlock
    \/ AddEnter \/ AddWrLock \/ AddTail \/ AddUnlock
    \/ DestroyEnter \/ DestroyWrLock \/ DestroyEnd \/ DestroyLoop
    \/ DestroyUnlock \/ DestroyLock

SpecThreads == InitThreads /\ [][NextThreads]_vars

\* sort_combining_characters applied to every buffer
InitSort ==
    /\ open = {1}
    /\ cache = NoCache
    /\ last = NoCall
    /\ added = <<>>
    /\ rd = NoRead
    /\ dev = NoDevice
    /\ conv = NoConversion
    /\ thr = NoThreads
    /\ \E buf \in SortBuffers : sorted = [NoSort EXCEPT !.buf = buf, !.out = buf]

NextSort == SortCombiningCharacters

SpecSort == InitSort /\ [][NextSort]_vars

------------------------------------------------------------------------------
(* Properties of hfs_lookup and the record cache *)

Last(s) == s[Len(s)]
Front(s) == SubSeq(s, 1, Len(s) - 1)

UsedNodes == {i \in 1..Len(cache.ring) : cache.ring[i].used}
CacheFull == cache.init /\ \A i \in 1..Len(cache.ring) : cache.ring[i].used

\* the state of the walk of hfs_lookup when its loop stops
WalkOf(v, path) ==
    LET root == hfslib_find_catalog_record_with_cnid(v, HFS_CNID_ROOT_FOLDER) IN
    hfs_lookup_walk(v, root.rec, root.key, [null |-> FALSE, elems |-> path])

\* the catalog entries of a volume that lie in its private folder under the
\* name of indirect node inode
IndirectNodes(v, inode) ==
    {e \in Catalog(v) : e.parent = PrivateDir(v) /\ e.name = INodeName(inode)}

\* C1: the record cache is a pure accelerator: every hfs_lookup call on the one
\* open volume returns the return code, record, key and fork flag that the call
\* returns with the cache disabled (ringbuffer_lookup missing, ringbuffer_add
\* doing nothing, which is the cache before ringbuffer_init).
C1_CachePureAccelerator ==
    last.op = "hfs_lookup" =>
        LET r == hfs_lookup(NoCache, last.vol, last.path) IN
        /\ last.ret = r.ret
        /\ last.record = r.record
        /\ last.key = r.key
        /\ last.fork = r.fork

\* a call answered from a cache in which every node is in use
C1_Witness == last.op = "hfs_lookup" /\ last.hit /\ CacheFull

\* C2: when hfs_lookup returns 0 for a path whose final catalog entry is a
\* file hard link stub, the record returned is the indirect node's and not the
\* stub, from the catalog and from the cache alike; when the indirect node
\* cannot be found the lookup fails.
C2_HardlinkFollowed ==
    last.op = "hfs_lookup" =>
        LET w == WalkOf(last.vol, last.path)
            targets == IndirectNodes(last.vol, w.record.inode)
        IN (w.ret = 0 /\ IsHardLink(w.record)) =>
              /\ last.ret = 0 => /\ last.record # w.record
                                 /\ \E e \in targets : last.record = e.rec
              /\ targets = {} => last.ret # 0

\* the path of a hard link answered from the cache with the indirect node
C2_Witness ==
    /\ last.op = "hfs_lookup" /\ last.hit /\ last.ret = 0
    /\ IsHardLink(WalkOf(last.vol, last.path).record)
    /\ last.record.cnid = 30

\* C3: a successful hfs_lookup sets the fork flag to the resource fork exactly
\* when the path is a path that resolves to a file followed by the one element
\* "rsrc"; every other successful lookup, every cache hit among them, has the
\* data fork, and a lookup with any other text left after its walk fails.
C3_ForkFlag ==
    (last.op = "hfs_lookup" /\ last.ret = 0) =>
        LET file == hfs_lookup_catalog(last.vol, Front(last.path))
            shape == /\ Len(last.path) >= 2
                     /\ Last(last.path) = RsrcName
                     /\ file.ret = 0
                     /\ file.record.type = HFS_REC_FILE
            w == WalkOf(last.vol, last.path)
        IN /\ last.fork = HFS_RSRCFORK <=> shape
           /\ last.fork \in {HFS_DATAFORK, HFS_RSRCFORK}
           /\ last.hit => last.fork = HFS_DATAFORK
           /\ w.sp.null \/ w.sp.elems = <<RsrcName>>

\* the resource fork of a file named rsrc: "/d/rsrc/rsrc"
C3_Witness ==
    /\ last.op = "hfs_lookup" /\ last.ret = 0 /\ last.fork = HFS_RSRCFORK
    /\ Len(last.path) = 3

\* no cached path is one that the catalog fails to resolve
NoFailedPathCached ==
    \A v \in open : \A i \in UsedNodes :
        hfs_lookup_catalog(v, cache.ring[i].path).ret = 0

\* C7: an hfs_lookup that returns non-zero leaves the record cache as it was,
\* so no path that fails is ever held by the cache.
C7_ErrorsNotCached ==
    /\ [][(HfsLookup /\ last'.ret # 0) => cache' = cache]_vars
    /\ []NoFailedPathCached

\* a lookup has failed on its hard link while the cache holds entries
C7_Witness ==
    /\ last.op = "hfs_lookup" /\ last.ret = -6
    /\ UsedNodes # {}

\* C8 as claimed: no cache entry has a path ending in the element "rsrc".
C8_NoRsrcPathCached ==
    \A i \in UsedNodes : Last(cache.ring[i].path) # RsrcName

\* C8 as amended: no cache entry was stored by a lookup that resolved the
\* resource fork suffix: a cached path ends in "rsrc" only where that element
\* is the name of a catalog entry inside a folder, and a lookup that the
\* catalog resolves to a resource fork is never answered from the cache.
C8_RsrcSuffixNotCached ==
    \A v \in open :
        /\ \A i \in UsedNodes :
              LET path == cache.ring[i].path IN
              /\ hfs_lookup_catalog(v, path).fork = HFS_DATAFORK
              /\ (Len(path) >= 2 /\ Last(path) = RsrcName) =>
                     hfs_lookup_catalog(v, Front(path)).record.type = HFS_REC_FLDR
        /\ (last.op = "hfs_lookup" /\ last.vol = v
            /\ hfs_lookup_catalog(v, last.path).fork = HFS_RSRCFORK) => ~last.hit

\* "/d/rsrc" is cached and the resource fork of that file has been looked up
C8_Witness ==
    /\ \E i \in UsedNodes : Last(cache.ring[i].path) = RsrcName
    /\ last.op = "hfs_lookup" /\ last.ret = 0 /\ last.fork = HFS_RSRCFORK
    /\ Front(last.path) \in {cache.ring[i].path : i \in UsedNodes}

\* C9: each volume has its own record cache: what hfs_lookup returns for a
\* path on a volume is what that volume's catalog holds for it, never the
\* (record, key) another open volume's lookup of the path has cached.
C9_CachePerVolume ==
    (last.op = "hfs_lookup" /\ last.hit) =>
        /\ last.record = Resolved[last.vol][last.path].record
        /\ last.key = Resolved[last.vol][last.path].key

\* the paths of the n entries added last
RECURSIVE PathsOf(_, _)
PathsOf(history, n) ==
    IF n = 0 \/ history = <<>> THEN {}
    ELSE {Last(history)} \cup PathsOf(Front(history), n - 1)

\* C6: the record cache holds RING_BUFFER_SIZE entries: after n ringbuffer_add
\* calls the paths a ringbuffer_lookup finds are those of the
\* min(n, RING_BUFFER_SIZE) entries added last.
C6_HoldsMostRecent ==
    cache.init =>
        \A path \in RingPaths :
            ringbuffer_lookup(cache, path).found
                <=> path \in PathsOf(added, Min(Len(added), RING_BUFFER_SIZE))

\* the '/'-separated UNIX names of the thread chain from the root down to cnid
ThreadChainPath(v, cnid) ==
    LET e == hfs_get_path_elements(v, cnid).elements IN
    IF e = <<>> THEN <<47>>
    ELSE Concat([i \in 1..Len(e) |-> <<47>> \o hfs_pathname_to_unix(e[i]).u8])

\* C10: for the record r of a path that hfs_lookup resolved, hfs_get_path(r.cnid)
\* is "/" for the root folder and otherwise the '/'-separated UNIX names of the
\* thread chain from the root down to r, without a trailing slash, whatever the
\* length of the names in UTF-8, and it is written inside its allocation.
C10_PathOfThreadChain ==
    last.op = "hfs_get_path" =>
        /\ ~last.null
        /\ ~last.over
        /\ last.out = ThreadChainPath(last.vol, last.record.cnid)

------------------------------------------------------------------------------
(* Properties of hfs_read *)

\* C4: hfs_read returns 0 only when all the bytes asked for were copied from
\* the device into the caller's buffer.
C4_ZeroMeansAllRead ==
    (rd.pc = "done" /\ rd.result = 0) => rd.copied = rd.want

\* C5: hfs_read writes only into bytes 0..length-1 of the caller's buffer,
\* whatever the preads return; the block read for an unaligned tail gives the
\* caller at most length mod blksize bytes.
C5_WritesInsideBuffer ==
    /\ rd.hi <= rd.want
    /\ rd.outbuf + rd.length + rd.rem = rd.want
    /\ (rd.pc = "done" /\ rd.rem # 0) => rd.ret <= rd.rem

\* a whole block was read for a shorter tail and the buffer is filled to its end
C5_Witness ==
    /\ rd.pc = "done" /\ rd.rem # 0
    /\ rd.tail = rd.blksize /\ rd.tail > rd.rem
    /\ rd.hi = rd.want /\ rd.want > rd.blksize

------------------------------------------------------------------------------
(* Error kinds of hfs_lookup *)

\* errno.h: not a directory
ENOTDIR == 20

\* the walk of the last lookup stopped at a record that is not a folder with
\* path text left that is not the one element "rsrc"
StoppedAtNonFolder ==
    /\ last.op = "hfs_lookup"
    /\ LET w == WalkOf(last.vol, last.path)
       IN /\ w.ret = 0
          /\ w.record.type # HFS_REC_FLDR
          /\ ~w.sp.null
          /\ w.sp.elems # <<RsrcName>>

\* C11: when a path element other than the last resolves to a record that is
\* not a folder, and the text left is not the one element "rsrc", hfs_lookup
\* fails with the not-a-directory error -ENOTDIR, which is neither the I/O
\* error -EIO nor the error of a name that was not found.
C11_NotADirectory ==
    StoppedAtNonFolder =>
        /\ last.ret = -ENOTDIR
        /\ last.ret # -EIO
        /\ last.ret # -HFSLIB_FAILURE

------------------------------------------------------------------------------
(* Properties of hfs_open *)

Max(a, b) == IF a > b THEN a ELSE b

\* C12: a successful hfs_open on a character or block device sets the block
\* size to the larger of the optimal I/O size and the physical block size the
\* device reports, and to 512 when both report nothing; on a regular file it
\* is the file system's preferred block size.
C12_LargerBlockSize ==
    (dev.isopen /\ dev.ret = 0) =>
        IF dev.mode \in {S_IFCHR, S_IFBLK}
        THEN dev.blksize = IF Max(dev.ideal, dev.physical) = 0 THEN DefaultBlockSize
                           ELSE Max(dev.ideal, dev.physical)
        ELSE dev.blksize = dev.st_blksize

------------------------------------------------------------------------------
(* Properties of the name conversion *)

\* what utf8_to_utf16 reports for the element converted last
ConversionOf(c) ==
    utf8_to_utf16(Replace((IF c.utf8proc THEN hfs_utf8proc_NFD(c.pelem)
                           ELSE hfs_utf8proc_NFD_strdup(c.pelem)).s, 58, 47))

\* the element converted last is one utf8_to_utf16 reports an error for
ConversionFailed ==
    /\ conv.pelem # NoText
    /\ ConversionOf(conv).err # 0

\* C13: a path element for which the UTF-8 to UTF-16 conversion reports a
\* non-zero error makes hfs_pathname_from_unix report failure (a negative
\* value) and hfs_lookup return its invalid-name error -3 (RET(3)), which it
\* does before a catalog key is made of the partially converted name.
C13_InvalidNameFails ==
    ConversionFailed =>
        /\ conv.upath.ret < 0
        /\ conv.walk.ret = -3

------------------------------------------------------------------------------
(* Properties of the record cache under threads *)

\* C14: however ringbuffer_lookup, ringbuffer_add and ringbuffer_destroy of
\* different threads interleave, no thread reads a cache node that was freed,
\* no thread uses cachelock after it was destroyed, and a call made after
\* ringbuffer_destroy has completed returns at once: ringbuffer_lookup misses
\* and ringbuffer_add does nothing.
C14_NoUseAfterDestroy ==
    /\ ~thr.uaf
    /\ ~thr.badlock
    /\ \A i \in Threads :
          thr.t[i].late => thr.t[i].pc = "idle" /\ ~thr.t[i].ret

------------------------------------------------------------------------------
(* Properties of the two builds of hfs_read *)

\* the device offset of the byte that lands in outbytes[0]
FirstDeviceByte == rd.offset - rd.outbuf

\* C15: the builds of hfs_read with and without ublio are equivalent: called
\* with the same volume, offset and length they read the same range of the
\* device and deliver the same bytes, and the offset argument is the device
\* offset, to which hfs_read adds nothing.
C15_BuildsEquivalent ==
    (rd.pc # "idle" /\ rd.want > 0) =>
        /\ FirstDeviceByte = rd.ublio.first
        /\ FirstDeviceByte = rd.arg
        /\ (rd.pc = "done" /\ rd.result = 0 /\ rd.ublio.result = 0) =>
              rd.copied = rd.ublio.bytes

------------------------------------------------------------------------------
(* Properties of sort_combining_characters *)

\* buf is canonically ordered over the codepoints HFS+ decomposes
CanonicallyOrdered(buf) ==
    \A i \in 1..(Len(buf) - 1) :
        ~ /\ HFSINRANGE(buf[i]) /\ HFSINRANGE(buf[i + 1])
          /\ combining_class(buf[i + 1]) # 0
          /\ combining_class(buf[i]) > combining_class(buf[i + 1])

\* how often cp is in buf
Count(buf, cp) == Cardinality({i \in 1..Len(buf) : buf[i] = cp})

\* C16: sort_combining_characters returns for every buffer and leaves it
\* canonically ordered over the in-range codepoints: no adjacent pair (a, b)
\* of in-range codepoints with combining_class(b) # 0 and combining_class(a) >
\* combining_class(b) is left; the result is a permutation of the buffer in
\* which the codepoints out of range keep their places.
C16_CanonicallyOrdered ==
    sorted.done =>
        /\ CanonicallyOrdered(sorted.out)
        /\ Len(sorted.out) = Len(sorted.buf)
        /\ \A cp \in SortCodepoints : Count(sorted.out, cp) = Count(sorted.buf, cp)
        /\ \A i \in 1..Len(sorted.buf) :
              ~HFSINRANGE(sorted.buf[i]) => sorted.out[i] = sorted.buf[i]

====
